---- MODULE Spec2Model ----
(***************************************************************************)
(* Model of the Google Indexing relay: main.py (the /submit-url handler,   *)
(* its credential resolver and its private-key normaliser) and the         *)
(* private-key fix of script.py.                                           *)
(*                                                                         *)
(* Python values are modelled as follows.  None is Null.  A str that the   *)
(* code only passes along is a TLA+ string.  A private key, which the code *)
(* searches and rewrites, is a sequence of characters over KeyAlphabet,    *)
(* where "bs" is a backslash, "n" the letter n, "nl" a real line break and *)
(* "k" any other character.  An exception message, which the code searches *)
(* for a phrase, is a sequence of phrases.  A dict is a function from its  *)
(* keys.                                                                   *)
(***************************************************************************)
EXTENDS Naturals, Sequences, FiniteSets

VARIABLES
    pc,            \* where the /submit-url handler stands
    request,       \* the URLRequest being handled
    sources,       \* the blob and the file as get_service_account_info found
                   \* them, kept until the handler's next step
    info,          \* service_account_info
    attempt,       \* the retry loop's index
    access_token,  \* access_token
    creds,         \* the Credentials object of the current attempt
    log,           \* history: the outbound events of this call, in order
    sent,          \* the POST issued to API_ENDPOINT
    response,      \* what requests.post returned
    result,        \* the URLResponse returned to the caller
    raised,        \* the HTTPException raised to the caller
    pk0,           \* key normalisation: the key as given
    pk,            \* key normalisation: the key after the applications so far
    pkPrev,        \* key normalisation: the key before the last application
    fixer,         \* key normalisation: which file's fix is applied
    napplied       \* key normalisation: number of applications so far

vars == <<pc, request, sources, info, attempt, access_token, creds, log, sent,
          response, result, raised, pk0, pk, pkPrev, fixer, napplied>>

callVars == <<pc, request, sources, info, attempt, access_token, creds, log,
              sent, response, result, raised>>

keyVars == <<pk0, pk, pkPrev, fixer, napplied>>

----------------------------------------------------------------------------
(* Bounds of the model. *)

MaxKeyLen == 4

MaxApplications == 2

----------------------------------------------------------------------------
(* Configuration, main.py lines 20-23. *)

DEFAULT_SCOPES == <<"https://www.googleapis.com/auth/indexing">>

TIMEOUT == 30

API_ENDPOINT == "https://indexing.googleapis.com/v3/urlNotifications:publish"

MAX_RETRIES == 3

----------------------------------------------------------------------------
(* Python values. *)

Null == "<None>"

\* str(v) inside an f-string
Str(v) == IF v = Null THEN "None" ELSE v

\* truthiness of an Optional[str]
Truthy(v) == v # Null /\ v # ""

\* an exception other than HTTPException; str(e) is msg
Exc(kind, msg) == [kind |-> kind, status |-> 0, msg |-> msg]

HTTPException(status, detail) ==
    [kind |-> "HTTPException", status |-> status, msg |-> detail]

NoExc == [kind |-> "", status |-> 0, msg |-> <<>>]

\* phrase in str(e)
Contains(msg, phrase) == \E i \in 1..Len(msg) : msg[i] = phrase

EmptyDict == <<>>

----------------------------------------------------------------------------
(* Private keys. *)

KeyAlphabet == {"bs", "n", "nl", "k"}

HasEscape(k) ==
    \E i \in 1..(Len(k) - 1) : k[i] = "bs" /\ k[i + 1] = "n"

HasNewline(k) == \E i \in 1..Len(k) : k[i] = "nl"

\* str.replace('\\n', '\n'): left to right, non-overlapping
RECURSIVE ReplaceEscapes(_)
ReplaceEscapes(k) ==
    IF Len(k) < 2 THEN k
    ELSE IF k[1] = "bs" /\ k[2] = "n"
         THEN <<"nl">> \o ReplaceEscapes(SubSeq(k, 3, Len(k)))
         ELSE <<k[1]>> \o ReplaceEscapes(Tail(k))

\* mutant: the escapes are replaced even when the key has real line breaks
fix_private_key_format_any(private_key) ==
    IF private_key = <<>> THEN private_key
    ELSE IF HasEscape(private_key) THEN ReplaceEscapes(private_key)
         ELSE private_key

fix_private_key_format(private_key) ==
    IF private_key = <<>> THEN private_key
    ELSE IF HasEscape(private_key) /\ ~HasNewline(private_key)
         THEN ReplaceEscapes(private_key)
         ELSE private_key

\* script.py: the fix inside validate_service_account_file
script_fix_private_key(private_key) ==
    IF HasEscape(private_key) THEN ReplaceEscapes(private_key)
    ELSE private_key

----------------------------------------------------------------------------
(* Service-account records. *)

\* main.py line 109, in the declared order
required_fields ==
    <<"type", "project_id", "private_key_id", "private_key", "client_email">>

RequiredSet == {required_fields[i] : i \in 1..Len(required_fields)}

\* the other fields ServiceAccountModel requires
OtherFields == {"client_id", "auth_uri", "token_uri"}

OptionalFields == {"auth_provider_x509_cert_url", "client_x509_cert_url"}

EscapedKey == <<"k", "bs", "n", "k", "bs", "n">>

PemKey == <<"k", "nl", "k", "bs", "n">>

SaValue(f, key) ==
    IF f = "private_key" THEN key
    ELSE IF f = "project_id" THEN "proj-sa"
    ELSE "v"

\* ServiceAccountModel.dict(): every declared field is a key
InlineRecord(key) ==
    [f \in RequiredSet \cup OtherFields \cup OptionalFields |->
        IF f \in OptionalFields THEN Null ELSE SaValue(f, key)]

\* a JSON object decoded from the environment blob or the file: any of the
\* fields may be absent
JsonRecord(S, key) == [f \in S \cup OtherFields |-> SaValue(f, key)]

JsonRecords ==
    {JsonRecord(S, EscapedKey) : S \in SUBSET RequiredSet}
    \cup {JsonRecord(RequiredSet, PemKey)}

NotGiven == [given |-> FALSE, data |-> EmptyDict]

InlineChoices ==
    {NotGiven} \cup {[given |-> TRUE, data |-> InlineRecord(k)] :
                        k \in {EscapedKey, PemKey}}

Source(st, data) == [st |-> st, data |-> data]

\* os.getenv('GOOGLE_SERVICE_ACCOUNT_BASE64'): unset (None), the empty
\* string, a blob b64decode rejects, a blob json.loads rejects, or a blob
\* that decodes to a JSON object
EnvStates ==
    {Source(s, EmptyDict) : s \in {"unset", "empty", "bad_base64", "bad_json"}}
    \cup {Source("json", r) : r \in JsonRecords}

\* the file at SERVICE_ACCOUNT_FILE: absent, not JSON, or a JSON object
FileStates ==
    {Source(s, EmptyDict) : s \in {"absent", "bad_json"}}
    \cup {Source("json", r) : r \in JsonRecords}

Unread == Source("unread", EmptyDict)

NoSources == [env |-> Unread, file |-> Unread]

\* data['private_key'] = fix_private_key_format(data['private_key'])
Normalize(data) ==
    IF "private_key" \in DOMAIN data
    THEN [data EXCEPT !["private_key"] = fix_private_key_format(@)]
    ELSE data

Ok(data) == [ok |-> TRUE, data |-> data, exc |-> NoExc]

Fail(exc) == [ok |-> FALSE, data |-> EmptyDict, exc |-> exc]

\* str(e) of what decoding a source raised
DecodeError(st) ==
    IF st = "bad_base64" THEN <<"Incorrect padding">>
    ELSE <<"Expecting value: line 1 column 1 (char 0)">>

LoadFailed(msg) ==
    Fail(HTTPException(500, <<"Failed to load service account: ">> \o msg))

NotFoundMsg == <<"Service account credentials not found">>

\* mutant: the file is consulted before the environment blob
get_service_account_info_file_first(inline, env, file) ==
    IF inline.given THEN Ok(Normalize(inline.data))
    ELSE IF file.st # "absent"
         THEN IF file.st = "json" THEN Ok(Normalize(file.data))
              ELSE LoadFailed(DecodeError(file.st))
    ELSE IF env.st \notin {"unset", "empty"}
         THEN IF env.st = "json" THEN Ok(Normalize(env.data))
              ELSE LoadFailed(DecodeError(env.st))
    ELSE LoadFailed(NotFoundMsg)

\* mutant: a source that cannot be decoded is skipped
get_service_account_info_skipping(inline, env, file) ==
    IF inline.given THEN Ok(Normalize(inline.data))
    ELSE IF env.st = "json" THEN Ok(Normalize(env.data))
    ELSE IF file.st = "json" THEN Ok(Normalize(file.data))
    ELSE LoadFailed(NotFoundMsg)

get_service_account_info(inline, env, file) ==
    IF inline.given THEN Ok(Normalize(inline.data))
    ELSE IF env.st \notin {"unset", "empty"}
         THEN IF env.st = "json" THEN Ok(Normalize(env.data))
              ELSE LoadFailed(DecodeError(env.st))
    ELSE IF file.st # "absent"
         THEN IF file.st = "json" THEN Ok(Normalize(file.data))
              ELSE LoadFailed(DecodeError(file.st))
    ELSE LoadFailed(NotFoundMsg)

----------------------------------------------------------------------------
(* The /submit-url handler. *)

Urls == {"https://example.com/page", "https://example.com/other"}

\* URLRequest.type: Optional[str], "URL_UPDATED" when the body omits it
TypeChoices == {"URL_UPDATED", "URL_DELETED", Null}

ProjectChoices == {Null, "proj-req"}

\* URLRequest.scopes: None (the empty sequence here) or a list
ScopeChoices == {<<>>, <<"https://www.googleapis.com/auth/cloud-platform">>}

Requests ==
    [url : Urls, type : TypeChoices, service_account : InlineChoices,
     project_id : ProjectChoices, scopes : ScopeChoices]

NoRequest ==
    [url |-> "", type |-> Null, service_account |-> NotGiven,
     project_id |-> Null, scopes |-> <<>>]

\* request.scopes if request.scopes else DEFAULT_SCOPES
TokenScopes(req) == IF req.scopes # <<>> THEN req.scopes ELSE DEFAULT_SCOPES

\* mutant: the check stops at the first absent field
MissingFields_first_only(data) ==
    LET Absent(f) == f \notin DOMAIN data
        all == SelectSeq(required_fields, Absent)
    IN  IF all = <<>> THEN all ELSE <<all[1]>>

\* [field for field in required_fields if field not in service_account_info]
MissingFields(data) ==
    LET Absent(f) == f \notin DOMAIN data
    IN  SelectSeq(required_fields, Absent)

\* mutant: an HTTPException is wrapped like any other exception
Surface_rewrapping(e) ==
    HTTPException(500, <<"Failed to submit URL: ">> \o e.msg)

\* the two except clauses that end submit_url
Surface(e) ==
    IF e.kind = "HTTPException" THEN e
    ELSE HTTPException(500, <<"Failed to submit URL: ">> \o e.msg)

SigPhrase == "Invalid JWT Signature"

\* mutant: the delay is taken on every attempt
NeedsDelay_always(att) == att >= 0

\* if attempt > 0: time.sleep(1)
NeedsDelay(att) == att > 0

\* mutant: every failure is retried
Retries_any_error(e, att) == att < MAX_RETRIES - 1

\* mutant: the last attempt's failure is retried too
Retries_off_by_one(e, att) == Contains(e.msg, SigPhrase) /\ att < MAX_RETRIES

\* the except clause of the retry loop: continue, or raise
Retries(e, att) == Contains(e.msg, SigPhrase) /\ att < MAX_RETRIES - 1

Tokens == {"ya29.a", "ya29.b"}

RefreshErrors ==
    {<<"invalid_grant: ", SigPhrase>>,
     <<SigPhrase, ": token must be a short-lived token">>,
     <<"invalid_grant: ", "account not found">>}

Event(ev, arg) == [ev |-> ev, arg |-> arg]

NoCreds == [scopes |-> <<>>, email |-> Null]

\* project_id = request.project_id or service_account_info.get('project_id')
ProjectId(req, data) ==
    IF Truthy(req.project_id) THEN req.project_id
    ELSE IF "project_id" \in DOMAIN data THEN data["project_id"]
    ELSE Null

Headers(token, project) ==
    [Authorization |-> <<"Bearer ", Str(token)>>,
     ContentType |-> "application/json",
     XGoogUserProject |-> IF Truthy(project) THEN <<project>> ELSE <<>>]

Payload(req) == [url |-> req.url, type |-> req.type]

Responses ==
    {[status_code |-> 200, text |-> "{urlNotificationMetadata}"],
     [status_code |-> 204, text |-> ""],
     [status_code |-> 403, text |-> "Permission denied"],
     [status_code |-> 404, text |-> "Requested entity was not found"]}

PostErrors ==
    {Exc("ConnectionError", <<"Connection refused">>),
     Exc("ReadTimeout", <<"Read timed out. (read timeout=30)">>)}

SuccessMessage == "URL submitted successfully"

IsSuccess(resp) == resp.status_code = 200

\* mutant: the result carries the default type, not the request's
URLResponse_default_type(req, resp) ==
    [success |-> IsSuccess(resp),
     status_code |-> resp.status_code,
     message |-> IF ~IsSuccess(resp) THEN resp.text ELSE SuccessMessage,
     url |-> req.url,
     type |-> "URL_UPDATED"]

\* URLResponse(...): type is declared str, so None does not validate
URLResponse(req, resp) ==
    [success |-> IsSuccess(resp),
     status_code |-> resp.status_code,
     message |-> IF ~IsSuccess(resp) THEN resp.text ELSE SuccessMessage,
     url |-> req.url,
     type |-> req.type]

ValidationError ==
    Exc("ValidationError", <<"1 validation error for URLResponse", "type">>)

----------------------------------------------------------------------------
(* State. *)

KeyIdle ==
    pk0 = <<>> /\ pk = <<>> /\ pkPrev = <<>> /\ fixer = "main" /\ napplied = 0

CallIdle ==
    /\ pc = "idle"
    /\ request = NoRequest
    /\ sources = NoSources
    /\ info = EmptyDict
    /\ attempt = 0
    /\ access_token = Null
    /\ creds = NoCreds
    /\ log = <<>>
    /\ sent = <<>>
    /\ response = <<>>
    /\ result = <<>>
    /\ raised = <<>>

Init == CallIdle /\ KeyIdle

\* raise, out of submit_url
Raise(e) ==
    /\ pc' = "error"
    /\ raised' = <<Surface(e)>>

ReceiveRequest ==
    /\ pc = "idle"
    /\ \E req \in Requests : request' = req
    /\ pc' = "resolve"
    /\ UNCHANGED <<sources, info, attempt, access_token, creds, log, sent,
                   response, result, raised>>
    /\ UNCHANGED keyVars

GetServiceAccountInfo ==
    /\ pc = "resolve"
    /\ \E env \in EnvStates, file \in FileStates :
          LET r == get_service_account_info(request.service_account, env, file)
          IN  /\ sources' = [env |-> env, file |-> file]
              /\ IF r.ok
                 THEN /\ info' = r.data
                      /\ pc' = "validate"
                      /\ UNCHANGED raised
                 ELSE /\ Raise(r.exc)
                      /\ UNCHANGED info
    /\ UNCHANGED <<request, attempt, access_token, creds, log, sent, response,
                   result>>
    /\ UNCHANGED keyVars

ValidateRequiredFields ==
    /\ pc = "validate"
    /\ LET missing_fields == MissingFields(info)
       IN  IF missing_fields # <<>>
           THEN Raise(Exc("ValueError",
                          <<"Missing required fields: ">> \o missing_fields))
           ELSE /\ pc' = "create"
                /\ UNCHANGED raised
    \* the resolver's reads play no part from here on
    /\ sources' = NoSources
    /\ UNCHANGED <<request, info, attempt, access_token, creds, log, sent,
                   response, result>>
    /\ UNCHANGED keyVars

\* the except clause of the retry loop, and the loop's end
AttemptFailed(e) ==
    IF Retries(e, attempt)
    THEN /\ attempt' = attempt + 1
         /\ pc' = IF attempt + 1 < MAX_RETRIES THEN "create" ELSE "post"
         /\ UNCHANGED raised
    ELSE /\ Raise(e)
         /\ UNCHANGED attempt

\* from_service_account_info: a function of the record and the scopes, so
\* it can fail on the first attempt only
CreateCredentials ==
    /\ pc = "create"
    /\ \E built \in IF attempt = 0 THEN BOOLEAN ELSE {TRUE} :
          IF built
          THEN /\ creds' = [scopes |-> TokenScopes(request),
                            email |-> info["client_email"]]
               /\ pc' = IF NeedsDelay(attempt) THEN "sleep" ELSE "refresh"
               /\ UNCHANGED <<attempt, raised>>
          ELSE /\ AttemptFailed(Exc("ValueError",
                                    <<"Could not deserialize key data">>))
               /\ UNCHANGED creds
    /\ UNCHANGED <<request, sources, info, access_token, log, sent, response,
                   result>>
    /\ UNCHANGED keyVars

\* time.sleep(1)
Sleep ==
    /\ pc = "sleep"
    /\ log' = Append(log, Event("delay", <<>>))
    /\ pc' = "refresh"
    /\ UNCHANGED <<request, sources, info, attempt, access_token, creds, sent,
                   response, result, raised>>
    /\ UNCHANGED keyVars

\* creds.refresh(auth_request)
RefreshToken ==
    /\ pc = "refresh"
    /\ \/ \E token \in Tokens :
             /\ access_token' = token
             /\ log' = Append(log, Event("exchange_ok", <<token>>))
             /\ pc' = "post"
             /\ UNCHANGED <<attempt, raised>>
       \/ \E msg \in RefreshErrors :
             /\ log' = Append(log, Event("exchange_failed", msg))
             /\ AttemptFailed(Exc("RefreshError", msg))
             /\ UNCHANGED access_token
    /\ UNCHANGED <<request, sources, info, creds, sent, response, result>>
    /\ UNCHANGED keyVars

\* requests.post(API_ENDPOINT, headers=..., json=..., timeout=TIMEOUT)
PostToGoogle ==
    /\ pc = "post"
    /\ sent' = <<[endpoint |-> API_ENDPOINT,
                  headers |-> Headers(access_token, ProjectId(request, info)),
                  json |-> Payload(request),
                  timeout |-> TIMEOUT]>>
    /\ log' = Append(log, Event("post", <<Str(access_token)>>))
    /\ \/ \E resp \in Responses :
             /\ response' = <<resp>>
             /\ pc' = "respond"
             /\ UNCHANGED raised
       \/ \E e \in PostErrors :
             /\ Raise(e)
             /\ UNCHANGED response
    /\ UNCHANGED <<request, sources, info, attempt, access_token, creds,
                   result>>
    /\ UNCHANGED keyVars

\* return URLResponse(...)
BuildResponse ==
    /\ pc = "respond"
    /\ IF request.type = Null
       THEN /\ Raise(ValidationError)
            /\ UNCHANGED result
       ELSE /\ result' = <<URLResponse(request, response[1])>>
            /\ pc' = "done"
            /\ UNCHANGED raised
    /\ UNCHANGED <<request, sources, info, attempt, access_token, creds, log,
                   sent, response>>
    /\ UNCHANGED keyVars

\* the handler has returned or raised; the server awaits the next request
Finish ==
    /\ pc \in {"done", "error"}
    /\ pc' = "idle"
    /\ request' = NoRequest
    /\ sources' = NoSources
    /\ info' = EmptyDict
    /\ attempt' = 0
    /\ access_token' = Null
    /\ creds' = NoCreds
    /\ log' = <<>>
    /\ sent' = <<>>
    /\ response' = <<>>
    /\ result' = <<>>
    /\ raised' = <<>>
    /\ UNCHANGED keyVars

Next ==
    \/ ReceiveRequest
    \/ GetServiceAccountInfo
    \/ ValidateRequiredFields
    \/ CreateCredentials
    \/ Sleep
    \/ RefreshToken
    \/ PostToGoogle
    \/ BuildResponse
    \/ Finish

Spec == Init /\ [][Next]_vars

----------------------------------------------------------------------------
(* Key normalisation on its own: every key up to MaxKeyLen, normalised up  *)
(* to MaxApplications times by main.py's fix or by script.py's.            *)

RECURSIVE KeysOfLen(_)
KeysOfLen(n) ==
    IF n = 0 THEN {<<>>}
    ELSE {Append(k, c) : k \in KeysOfLen(n - 1), c \in KeyAlphabet}

Keys == UNION {KeysOfLen(n) : n \in 0..MaxKeyLen}

InitKey ==
    /\ CallIdle
    /\ pk0 \in Keys
    /\ pk = pk0
    /\ pkPrev = pk0
    /\ fixer \in {"main", "script"}
    /\ napplied = 0

FixMain ==
    /\ fixer = "main"
    /\ napplied < MaxApplications
    /\ pk' = fix_private_key_format(pk)
    /\ pkPrev' = pk
    /\ napplied' = napplied + 1
    /\ UNCHANGED <<pk0, fixer>>
    /\ UNCHANGED callVars

FixScript ==
    /\ fixer = "script"
    /\ napplied < MaxApplications
    /\ pk' = script_fix_private_key(pk)
    /\ pkPrev' = pk
    /\ napplied' = napplied + 1
    /\ UNCHANGED <<pk0, fixer>>
    /\ UNCHANGED callVars

NextKey == FixMain \/ FixScript

SpecKey == InitKey /\ [][NextKey]_vars

----------------------------------------------------------------------------
(* Properties of credential resolution. *)

\* get_service_account_info has run and the handler has not moved on
Resolved == sources # NoSources

NoBlob(env) == env.st \in {"unset", "empty"}

\* out is src with its private key, if any, normalised
NormalizedFrom(src, out) ==
    /\ DOMAIN out = DOMAIN src
    /\ \A f \in DOMAIN src :
          out[f] = IF f = "private_key" THEN fix_private_key_format(src[f])
                   ELSE src[f]

ReturnedFrom(src) == pc = "validate" /\ NormalizedFrom(src, info)

NotFoundRaised ==
    /\ pc = "error"
    /\ raised = <<HTTPException(500, <<"Failed to load service account: ",
                                       "Service account credentials not found">>)>>

\* C1: resolution follows the priority inline, environment blob, file: an
\* inline credential is returned whatever the blob and the file are; else
\* the record decoded from the blob, whatever the file is; else the record
\* read from the file; and with no inline credential, no blob and no file
\* the call fails with "credentials not found".
C1_ResolutionPriority ==
    Resolved =>
        LET sa == request.service_account
            env == sources.env
            file == sources.file
        IN  /\ sa.given => ReturnedFrom(sa.data)
            /\ ~sa.given /\ env.st = "json" => ReturnedFrom(env.data)
            /\ ~sa.given /\ NoBlob(env) /\ file.st = "json"
                  => ReturnedFrom(file.data)
            /\ ~sa.given /\ NoBlob(env) /\ file.st = "absent"
                  => NotFoundRaised

\* the blob's record is returned although the file holds another record
C1_Witness ==
    /\ Resolved
    /\ ~request.service_account.given
    /\ sources.env.st = "json"
    /\ sources.file.st = "json"
    /\ sources.env.data # sources.file.data
    /\ MissingFields(sources.env.data) = <<>>
    /\ MissingFields(sources.file.data) = <<>>
    /\ info["private_key"] = <<"k", "nl", "k", "nl">>
    /\ sources.file.data["private_key"] = PemKey

\* C2, as the specification states it: resolution fails only if no source
\* yields a record.
C2_FirstSuccessWins ==
    Resolved /\ pc = "error" =>
        /\ ~request.service_account.given
        /\ sources.env.st # "json"
        /\ sources.file.st # "json"

LoadFailureRaised(st) ==
    /\ pc = "error"
    /\ raised = <<HTTPException(500, <<"Failed to load service account: ">>
                                     \o DecodeError(st))>>

\* C2, amended: the first source that is present decides.  A blob that is
\* set and cannot be decoded fails the resolution whatever the file holds,
\* and so does a file that exists and is not JSON; resolution fails in
\* these cases and when no source is present, and in no other.
C2_FirstPresentDecides ==
    Resolved =>
        LET sa == request.service_account
            env == sources.env
            file == sources.file
            undecodable == env.st \in {"bad_base64", "bad_json"}
        IN  /\ ~sa.given /\ undecodable => LoadFailureRaised(env.st)
            /\ ~sa.given /\ NoBlob(env) /\ file.st = "bad_json"
                  => LoadFailureRaised(file.st)
            /\ pc = "error" =>
                  /\ ~sa.given
                  /\ \/ undecodable
                     \/ NoBlob(env) /\ file.st \in {"absent", "bad_json"}

\* an undecodable blob fails the call although the file holds a complete
\* record
C2_Witness ==
    /\ Resolved
    /\ pc = "error"
    /\ sources.env.st = "bad_json"
    /\ sources.file.st = "json"
    /\ MissingFields(sources.file.data) = <<>>

----------------------------------------------------------------------------
(* Properties of the required-field check. *)

\* the handler is past its required-field check
Validated == info # EmptyDict /\ pc # "validate"

AbsentRequired == {f \in RequiredSet : f \notin DOMAIN info}

DeclaredIndex(f) == CHOOSE i \in 1..Len(required_fields) : required_fields[i] = f

\* listed names exactly the fields of S, each once, in the declared order
ListsInDeclaredOrder(listed, S) ==
    /\ Len(listed) = Cardinality(S)
    /\ {listed[i] : i \in 1..Len(listed)} = S
    /\ \A i, j \in 1..Len(listed) :
          i < j => DeclaredIndex(listed[i]) < DeclaredIndex(listed[j])

IsMissingFieldsError(e) ==
    /\ e.kind = "HTTPException"
    /\ Len(e.msg) >= 2
    /\ e.msg[2] = "Missing required fields: "

\* C7: whatever subset of the five required fields the sourced record
\* lacks: if it is not empty the call fails with a missing-fields error
\* listing exactly the absent fields in the declared order, before any
\* token exchange, and the error differs from "credentials not found"; if
\* it is empty no missing-fields error is raised.
C7_MissingFields ==
    Validated =>
        IF AbsentRequired # {}
        THEN /\ pc = "error"
             /\ Len(raised) = 1
             /\ IsMissingFieldsError(raised[1])
             /\ raised[1].status = 500
             /\ raised[1].msg[1] = "Failed to submit URL: "
             /\ ListsInDeclaredOrder(SubSeq(raised[1].msg, 3, Len(raised[1].msg)),
                                     AbsentRequired)
             /\ ~Contains(raised[1].msg, "Service account credentials not found")
             /\ creds = NoCreds /\ log = <<>> /\ sent = <<>>
        ELSE \A i \in 1..Len(raised) : ~IsMissingFieldsError(raised[i])

\* a record lacking three fields that are not adjacent in the declaration
C7_Witness ==
    /\ Validated
    /\ AbsentRequired = {"client_email", "type", "private_key"}
    /\ pc = "error"

----------------------------------------------------------------------------
(* Properties of key normalisation, under SpecKey. *)

\* the key with every real line break written back as an escape
RECURSIVE Escaped(_)
Escaped(k) ==
    IF k = <<>> THEN k
    ELSE IF Head(k) = "nl" THEN <<"bs", "n">> \o Escaped(Tail(k))
    ELSE <<Head(k)>> \o Escaped(Tail(k))

\* C8: fix_private_key_format is idempotent and conditional: normalising an
\* already normalised key changes nothing; a key with the backslash-n
\* escape and no real line break has every escape replaced by a line
\* break; a key with a real line break, and the empty key, are returned
\* unchanged.  The first two hold of script.py's fix as well.
C8_KeyNormalization ==
    /\ napplied >= 2 => pk = pkPrev
    /\ napplied = 1 /\ HasEscape(pk0) /\ ~HasNewline(pk0) =>
          /\ ~HasEscape(pk)
          /\ Escaped(pk) = pk0
    /\ fixer = "main" /\ napplied = 1 /\ (HasNewline(pk0) \/ pk0 = <<>>)
          => pk = pk0

\* a key with two escapes, normalised twice
C8_Witness ==
    /\ fixer = "main"
    /\ napplied = 2
    /\ pk0 = <<"bs", "n", "bs", "n">>
    /\ pk = <<"nl", "nl">>

----------------------------------------------------------------------------
(* Properties of token acquisition. *)

IsExchange(e) == e.ev \in {"exchange_ok", "exchange_failed"}

\* the token exchanges of this call, in order
Exchanges == SelectSeq(log, IsExchange)

Delays == {i \in 1..Len(log) : log[i].ev = "delay"}

Posts == {i \in 1..Len(log) : log[i].ev = "post"}

SigFailure(e) == e.ev = "exchange_failed" /\ Contains(e.arg, SigPhrase)

SubmitFailed(msg) ==
    /\ pc = "error"
    /\ raised = <<HTTPException(500, <<"Failed to submit URL: ">> \o msg)>>

\* C3: the exchange is attempted at most 3 times in a call; every attempt
\* but the last one made failed with an invalid-signature error; a failure
\* of another class aborts the call at once; a success ends the loop and
\* the call goes on to the submission; and a third invalid-signature
\* failure surfaces, with the error of that third attempt.
C3_RetryLoop ==
    LET ex == Exchanges
        n == Len(ex)
    IN  /\ n <= 3
        /\ \A i \in 1..(n - 1) : SigFailure(ex[i])
        /\ n > 0 /\ ex[n].ev = "exchange_failed" /\ ~SigFailure(ex[n])
              => SubmitFailed(ex[n].arg) /\ Posts = {}
        /\ n = 3 /\ SigFailure(ex[n])
              => SubmitFailed(ex[n].arg) /\ Posts = {}
        /\ n > 0 /\ n < 3 /\ SigFailure(ex[n])
              => pc \in {"create", "sleep", "refresh"} /\ attempt = n
        /\ n > 0 /\ ex[n].ev = "exchange_ok"
              => /\ access_token = ex[n].arg[1]
                 /\ pc = "post" \/ Posts # {}

\* three invalid-signature failures, the last unlike the first
C3_Witness ==
    /\ Len(Exchanges) = 3
    /\ \A i \in 1..3 : SigFailure(Exchanges[i])
    /\ Exchanges[3].arg # Exchanges[1].arg
    /\ pc = "error"

\* C10: each exchange attempt after the first comes right after one delay,
\* which comes right after the failure of the attempt before; no delay
\* comes before the first attempt or after the last; a call takes at most
\* 2 delays.
C10_DelayBetweenAttempts ==
    /\ Cardinality(Delays) <= 2
    /\ \A i \in 1..Len(log) :
          /\ log[i].ev = "delay" =>
                /\ i > 1
                /\ log[i - 1].ev = "exchange_failed"
                /\ IF i = Len(log) THEN pc = "refresh"
                   ELSE IsExchange(log[i + 1])
          /\ IsExchange(log[i]) /\ i > 1 =>
                /\ log[i - 1].ev = "delay"
                /\ i > 2
                /\ log[i - 2].ev = "exchange_failed"

\* two delays, the second exchange having failed again
C10_Witness ==
    /\ Cardinality(Delays) = 2
    /\ Len(Exchanges) = 3
    /\ Exchanges[3].ev = "exchange_ok"

\* C4: the POST is issued only after an exchange has succeeded, and with
\* the token that exchange returned, never with an absent one; when token
\* acquisition fails nothing is posted and no result is returned.
C4_TokenBeforePost ==
    LET ex == Exchanges
        n == Len(ex)
        acquired == n > 0 /\ ex[n].ev = "exchange_ok"
    IN  /\ \A i \in Posts :
              /\ i > 1
              /\ log[i - 1].ev = "exchange_ok"
              /\ log[i].arg = log[i - 1].arg
              /\ log[i].arg[1] \in Tokens
        /\ sent # <<>> =>
              /\ acquired
              /\ Posts # {}
              /\ sent[1].headers.Authorization = <<"Bearer ", ex[n].arg[1]>>
              /\ sent[1].endpoint = API_ENDPOINT
        /\ ~acquired =>
              /\ sent = <<>> /\ response = <<>> /\ result = <<>>
              /\ Posts = {}
              /\ access_token = Null
        /\ ~acquired /\ n > 0 /\ pc \notin {"create", "sleep", "refresh"}
              => pc = "error"

\* a POST issued with the token of the second attempt
C4_Witness ==
    /\ sent # <<>>
    /\ Len(Exchanges) = 2
    /\ sent[1].headers.Authorization = <<"Bearer ", "ya29.b">>

----------------------------------------------------------------------------
(* Properties of the submission and of what the caller gets. *)

Terminated == pc \in {"done", "error"}

C6_ResultMapping ==
    Terminated /\ response # <<>> =>
        /\ pc = "done"
        /\ raised = <<>>
        /\ Len(result) = 1
        /\ result[1].success = (response[1].status_code = 200)
        /\ result[1].status_code = response[1].status_code
        /\ result[1].message =
              IF response[1].status_code = 200
              THEN "URL submitted successfully" ELSE response[1].text
        /\ result[1].url = request.url
        /\ result[1].type = request.type

\* the same mapping for the requests whose type is a string; it holds of
\* the model
C6_ResultMappingTyped ==
    request.type # Null => C6_ResultMapping

\* C9: every failure before the external endpoint has answered reaches the
\* caller as HTTP 500 with a message naming the cause, never with another
\* status and never as a result; a failure the resolver raised as HTTP 500
\* is passed on as raised, not wrapped again.
C9_FailuresSurfaceAs500 ==
    /\ raised # <<>> <=> pc = "error"
    /\ result # <<>> => response # <<>> /\ raised = <<>>
    /\ pc = "error" /\ response = <<>> =>
          /\ Len(raised) = 1
          /\ raised[1].kind = "HTTPException"
          /\ raised[1].status = 500
          /\ Len(raised[1].msg) >= 2
          /\ result = <<>>
          /\ IF Resolved
             THEN /\ raised[1].msg[1] = "Failed to load service account: "
                  /\ ~Contains(raised[1].msg, "Failed to submit URL: ")
                  /\ \/ raised[1].msg[2] = "Service account credentials not found"
                     \/ sources.env.st \in {"bad_base64", "bad_json"}
                     \/ sources.file.st = "bad_json"
             ELSE /\ raised[1].msg[1] = "Failed to submit URL: "
                  /\ sent # <<>> =>
                        \E e \in PostErrors :
                           raised[1].msg = <<"Failed to submit URL: ">> \o e.msg

\* the resolver's "not found" failure, as the caller sees it
C9_Witness ==
    /\ pc = "error"
    /\ Resolved
    /\ sources.env.st = "empty"
    /\ sources.file.st = "absent"
    /\ raised[1].status = 500
    /\ raised[1].msg = <<"Failed to load service account: ",
                         "Service account credentials not found">>

====
